---- MODULE Spec2Model ----
(***************************************************************************)
(* A model of midilint (src/midilint/midilint.py): the three transforms    *)
(* normalize, align and correct_pitch over a mido.MidiFile.                *)
(*                                                                         *)
(* A MidiFile is its ticks_per_beat and its tracks; a track is a sequence  *)
(* of messages; a message is a record type/time/note/velocity.  Messages   *)
(* whose type is neither note_on nor note_off carry their note and         *)
(* velocity fields as an opaque payload, so that a transform touching them *)
(* would be seen.                                                          *)
(***************************************************************************)
EXTENDS Integers, Sequences, FiniteSets, TLC

VARIABLES
    stream,          \* source.tracks, mutated in place by the transforms
    ticks_per_beat,  \* source.ticks_per_beat
    before,          \* source.tracks as they were when the last call began
    call,            \* the last call: its name and its arguments
    outcome,         \* how the last call ended: returned, or the exception raised
    shifts,          \* align's local `shift` after each message, per track (last call)
    passes,          \* most passes any one while loop of a strategy made (last call)
    loaded,          \* source.tracks as they were loaded
    calls            \* number of calls made so far

vars == <<stream, ticks_per_beat, before, call, outcome, shifts, passes, loaded, calls>>

----------------------------------------------------------------------------
(* Bounds of the model *)

MaxTracks == 2
MaxEvents == 3
MaxTime == 2
MaxExp == 2
MaxPPB == 6
MaxPrecision == 4
MaxGridEvents == 1
MaxKeyLen == 2
MaxCalls == 3
MaxPipelineEvents == 2
MaxPitchEvents == 2

(* Program constants *)

MaxNote == 127
MinNote == 0

----------------------------------------------------------------------------
(* Helpers *)

Abs(x) == IF x < 0 THEN -x ELSE x

SeqsUpTo(S, n) == UNION {[1..k -> S] : k \in 0..n}

Elems(s) == {s[i] : i \in DOMAIN s}

RECURSIVE Flatten(_)
Flatten(ss) == IF ss = <<>> THEN <<>> ELSE Head(ss) \o Flatten(Tail(ss))

RECURSIVE Sum(_)
Sum(lens) == IF lens = <<>> THEN 0 ELSE Head(lens) + Sum(Tail(lens))

(* The messages of flat dealt out to tracks of the given lengths *)
Split(flat, lens) ==
    [t \in DOMAIN lens |->
        SubSeq(flat, Sum(SubSeq(lens, 1, t - 1)) + 1, Sum(SubSeq(lens, 1, t)))]

----------------------------------------------------------------------------
(* The event model *)

NoteTypes == {"note_on", "note_off"}
OtherTypes == {"control_change"}

IsNote(message) == message.type \in NoteTypes

Messages(types, times, pitches, velocities) ==
    [type : types, time : times, note : pitches, velocity : velocities]

----------------------------------------------------------------------------
(* Python arithmetic *)

(* bin(n).count('1') for n >= 0 *)
RECURSIVE BitCount(_)
BitCount(n) == IF n = 0 THEN 0 ELSE (n % 2) + BitCount(n \div 2)

(* A rounding that sends a half away from zero *)
PyRoundHalfAway(num, den) ==
    LET q == num \div den
        r == num % den
    IN  IF 2 * r < den THEN q
        ELSE IF 2 * r > den THEN q + 1
        ELSE IF q < 0 THEN q ELSE q + 1

(* round(num / den) for den > 0: nearest integer, a half goes to the even    *)
(* one.  The float quotient is exact here: den is a power of two and num is *)
(* far below 2^53.                                                          *)
PyRound(num, den) ==
    LET q == num \div den
        r == num % den
    IN  IF 2 * r < den THEN q
        ELSE IF 2 * r > den THEN q + 1
        ELSE IF q % 2 = 0 THEN q ELSE q + 1

----------------------------------------------------------------------------
(* normalize *)

(* A normalize that does not look at the message type *)
NormalizeMessageAll(message, velocity) == [message EXCEPT !.velocity = velocity]

NormalizeMessage(message, velocity) ==
    IF IsNote(message) THEN [message EXCEPT !.velocity = velocity] ELSE message

normalize(source, velocity) ==
    [t \in DOMAIN source |->
        [i \in DOMAIN source[t] |-> NormalizeMessage(source[t][i], velocity)]]

----------------------------------------------------------------------------
(* align *)

(* The loop body with the guard read as (message.time + shift) % tick != 0 *)
AlignMessageGrouped(message, shift, tick) ==
    IF ~IsNote(message)
    THEN [message |-> message, shift |-> shift, error |-> "none"]
    ELSE IF tick = 0
    THEN [message |-> message, shift |-> shift, error |-> "ZeroDivisionError"]
    ELSE IF (message.time + shift) % tick # 0
    THEN LET original == message.time + shift
             time == tick * PyRound(original, tick)
         IN  [message |-> [message EXCEPT !.time = time],
              shift |-> original - time, error |-> "none"]
    ELSE [message |-> message, shift |-> shift, error |-> "none"]

(* One pass of the loop body, lines 44-50.  With tick = 0 the guard's       *)
(* `shift % tick` raises ZeroDivisionError before anything is assigned.     *)
AlignMessage(message, shift, tick) ==
    IF ~IsNote(message)
    THEN [message |-> message, shift |-> shift, error |-> "none"]
    ELSE IF tick = 0
    THEN [message |-> message, shift |-> shift, error |-> "ZeroDivisionError"]
    ELSE IF message.time + (shift % tick) # 0
    THEN LET original == message.time + shift
             time == tick * PyRound(original, tick)
         IN  [message |-> [message EXCEPT !.time = time],
              shift |-> original - time, error |-> "none"]
    ELSE [message |-> message, shift |-> shift, error |-> "none"]

(* The inner loop over the messages of one track, from the given shift.     *)
(* An exception leaves the remaining messages as they are.                  *)
RECURSIVE AlignMessages(_, _, _)
AlignMessages(messages, shift, tick) ==
    IF messages = <<>>
    THEN [track |-> <<>>, shifts |-> <<>>, shift |-> shift, error |-> "none"]
    ELSE LET step == AlignMessage(Head(messages), shift, tick)
         IN  IF step.error # "none"
             THEN [track |-> messages, shifts |-> <<>>, shift |-> shift,
                   error |-> step.error]
             ELSE LET rest == AlignMessages(Tail(messages), step.shift, tick)
                  IN  [track |-> <<step.message>> \o rest.track,
                       shifts |-> <<step.shift>> \o rest.shifts,
                       shift |-> rest.shift,
                       error |-> rest.error]

(* A track loop that keeps the shift the previous track ended with *)
AlignTrackLeaky(track, carried, tick) == AlignMessages(track, carried, tick)

(* Line 42: shift = 0 at the start of every track, whatever value the      *)
(* variable was left with (carried) by the loop over the track before.      *)
AlignTrack(track, carried, tick) == AlignMessages(track, 0, tick)

(* The outer loop over the tracks, lines 41-50. *)
RECURSIVE AlignTracks(_, _, _)
AlignTracks(tracks, carried, tick) ==
    IF tracks = <<>>
    THEN [tracks |-> <<>>, shifts |-> <<>>, error |-> "none"]
    ELSE LET first == AlignTrack(Head(tracks), carried, tick)
         IN  IF first.error # "none"
             THEN [tracks |-> <<first.track>> \o Tail(tracks),
                   shifts |-> <<first.shifts>>, error |-> first.error]
             ELSE LET rest == AlignTracks(Tail(tracks), first.shift, tick)
                  IN  [tracks |-> <<first.track>> \o rest.tracks,
                       shifts |-> <<first.shifts>> \o rest.shifts,
                       error |-> rest.error]

(* A check that only rejects a number with no bit set *)
IsPowerOfTwoLoose(n) == BitCount(n) >= 1

IsPowerOfTwo(n) == BitCount(n) = 1

align(source, tpb, precision) ==
    IF ~IsPowerOfTwo(tpb)
    THEN [tracks |-> source, shifts |-> <<>>, error |-> "ValueError"]
    ELSE IF ~IsPowerOfTwo(precision)
    THEN [tracks |-> source, shifts |-> <<>>, error |-> "ValueError"]
    ELSE AlignTracks(source, 0, tpb \div precision)

----------------------------------------------------------------------------
(* The pitch strategies *)

Max(a, b) == IF a >= b THEN a ELSE b
Min(a, b) == IF a <= b THEN a ELSE b

(* A raising loop that stops one short of the top of the range *)
RaiseShort(note, notes) ==
    LET allowed == Elems(notes)
        stops == {n \in note..Max(note, MaxNote - 1) : ~(n < MaxNote - 1 /\ n \notin allowed)}
        exit == CHOOSE n \in stops : \A m \in stops : n <= m
    IN  [note |-> exit, steps |-> exit - note]

(* while message.note < 127 and message.note not in notes: message.note += 1 *)
(* (`not in` on the list notes: not among its elements)                     *)
(* The loop leaves the note at the first value from it upwards at which the *)
(* condition is false, one pass per value gone through.                     *)
Raise(note, notes) ==
    LET allowed == Elems(notes)
        stops == {n \in note..Max(note, MaxNote) : ~(n < MaxNote /\ n \notin allowed)}
        exit == CHOOSE n \in stops : \A m \in stops : n <= m
    IN  [note |-> exit, steps |-> exit - note]

(* while message.note > 0 and message.note not in notes: message.note -= 1 *)
(* The loop leaves the note at the first value from it downwards at which   *)
(* the condition is false, one pass per value gone through.                 *)
Lower(note, notes) ==
    LET allowed == Elems(notes)
        stops == {n \in Min(note, MinNote)..note : ~(n > MinNote /\ n \notin allowed)}
        exit == CHOOSE n \in stops : \A m \in stops : n >= m
    IN  [note |-> exit, steps |-> note - exit]

(* shift_up without its second loop *)
ShiftUpNoteNoFallback(note, notes) ==
    LET up == Raise(note, notes)
    IN  [note |-> up.note, steps |-> up.steps, error |-> "none"]

(* The body of shift_up for one note message, lines 63-67 *)
ShiftUpNote(note, notes) ==
    LET up == Raise(note, notes)
        down == Lower(up.note, notes)
    IN  [note |-> down.note, steps |-> Max(up.steps, down.steps), error |-> "none"]

(* The body of shift_down for one note message, lines 78-82 *)
ShiftDownNote(note, notes) ==
    LET down == Lower(note, notes)
        up == Raise(down.note, notes)
    IN  [note |-> up.note, steps |-> Max(down.steps, up.steps), error |-> "none"]

(* A min that keeps the last of several smallest keys *)
MinByDistanceLast(notes, note) ==
    LET key(i) == Abs(notes[i] - note)
        best == CHOOSE i \in DOMAIN notes :
                    \A j \in DOMAIN notes :
                        key(j) > key(i) \/ (key(j) = key(i) /\ j <= i)
    IN  notes[best]

(* min(notes, key=lambda x: abs(x - message.note)) on a non-empty list: the *)
(* first element whose key no other element's key is below.                 *)
MinByDistance(notes, note) ==
    LET key(i) == Abs(notes[i] - note)
        best == CHOOSE i \in DOMAIN notes :
                    \A j \in DOMAIN notes :
                        key(j) > key(i) \/ (key(j) = key(i) /\ j >= i)
    IN  notes[best]

(* The body of shift_nearest for one note message, line 93; min() of an     *)
(* empty list raises ValueError.                                            *)
ShiftNearestNote(note, notes) ==
    IF notes = <<>>
    THEN [note |-> note, steps |-> 0, error |-> "ValueError"]
    ELSE [note |-> MinByDistance(notes, note), steps |-> 0, error |-> "none"]

StrategyNote(strategy, note, notes) ==
    CASE strategy = "shift_up" -> ShiftUpNote(note, notes)
      [] strategy = "shift_down" -> ShiftDownNote(note, notes)
      [] strategy = "shift_nearest" -> ShiftNearestNote(note, notes)

(* The loop of a strategy over the messages of one track.  An exception     *)
(* leaves the remaining messages as they are.                               *)
RECURSIVE StrategyTrack(_, _, _)
StrategyTrack(strategy, track, notes) ==
    IF track = <<>>
    THEN [track |-> <<>>, steps |-> 0, error |-> "none"]
    ELSE IF ~IsNote(Head(track))
    THEN LET rest == StrategyTrack(strategy, Tail(track), notes)
         IN  [rest EXCEPT !.track = <<Head(track)>> \o rest.track]
    ELSE LET r == StrategyNote(strategy, Head(track).note, notes)
         IN  IF r.error # "none"
             THEN [track |-> track, steps |-> 0, error |-> r.error]
             ELSE LET rest == StrategyTrack(strategy, Tail(track), notes)
                  IN  [track |-> <<[Head(track) EXCEPT !.note = r.note]>> \o rest.track,
                       steps |-> Max(r.steps, rest.steps),
                       error |-> rest.error]

shift_up(track, notes) == StrategyTrack("shift_up", track, notes)
shift_down(track, notes) == StrategyTrack("shift_down", track, notes)
shift_nearest(track, notes) == StrategyTrack("shift_nearest", track, notes)

Strategies == {"shift_up", "shift_down", "shift_nearest"}

Strategy(strategy, track, notes) ==
    CASE strategy = "shift_up" -> shift_up(track, notes)
      [] strategy = "shift_down" -> shift_down(track, notes)
      [] strategy = "shift_nearest" -> shift_nearest(track, notes)

(* What midi_abstraction.notes(n) returns for the note class n: the pitch   *)
(* of the class in each octave the library covers, lowest first.  How many  *)
(* octaves it covers is the library's affair.                               *)
MidiNotes(n, octaves) == [k \in 1..octaves |-> n + 12 * (k - 1)]

(* Lines 105-107: the pitches of the key, note class by note class; key is  *)
(* what key.list_notes() returns.                                           *)
KeyNotes(key, octaves) == Flatten([k \in DOMAIN key |-> MidiNotes(key[k], octaves)])

(* Lines 109-110: the strategy applied to each track in turn *)
RECURSIVE StrategyTracks(_, _, _)
StrategyTracks(strategy, tracks, notes) ==
    IF tracks = <<>>
    THEN [tracks |-> <<>>, steps |-> 0, error |-> "none"]
    ELSE LET first == Strategy(strategy, Head(tracks), notes)
         IN  IF first.error # "none"
             THEN [tracks |-> <<first.track>> \o Tail(tracks), steps |-> first.steps,
                   error |-> first.error]
             ELSE LET rest == StrategyTracks(strategy, Tail(tracks), notes)
                  IN  [tracks |-> <<first.track>> \o rest.tracks,
                       steps |-> Max(first.steps, rest.steps),
                       error |-> rest.error]

correct_pitch(source, key, octaves, strategy) ==
    StrategyTracks(strategy, source, KeyNotes(key, octaves))

----------------------------------------------------------------------------
(* The calls *)

NoCall == [op |-> "none", velocity |-> 0, precision |-> 0, notes |-> <<>>,
           strategy |-> "none"]

Outcome(error) == IF error = "none" THEN "returned" ELSE error

(* An exception is not caught: the pipeline ends with it. *)
Running == outcome \in {"none", "returned"}

Normalize(velocity) ==
    /\ Running
    /\ stream' = normalize(stream, velocity)
    /\ before' = stream
    /\ call' = [NoCall EXCEPT !.op = "normalize", !.velocity = velocity]
    /\ outcome' = "returned"
    /\ shifts' = <<>>
    /\ passes' = 0
    /\ calls' = calls + 1
    /\ UNCHANGED <<ticks_per_beat, loaded>>

Align(precision) ==
    LET r == align(stream, ticks_per_beat, precision)
    IN  /\ Running
        /\ stream' = r.tracks
        /\ before' = stream
        /\ call' = [NoCall EXCEPT !.op = "align", !.precision = precision]
        /\ outcome' = Outcome(r.error)
        /\ shifts' = r.shifts
        /\ passes' = 0
        /\ calls' = calls + 1
        /\ UNCHANGED <<ticks_per_beat, loaded>>

CorrectPitch(key, octaves, strategy) ==
    LET r == correct_pitch(stream, key, octaves, strategy)
    IN  /\ Running
        /\ stream' = r.tracks
        /\ before' = stream
        /\ call' = [NoCall EXCEPT !.op = "correct_pitch",
                                  !.notes = KeyNotes(key, octaves),
                                  !.strategy = strategy]
        /\ outcome' = Outcome(r.error)
        /\ shifts' = <<>>
        /\ passes' = r.steps
        /\ calls' = calls + 1
        /\ UNCHANGED <<ticks_per_beat, loaded>>

(* source.tracks is some list of at most maxTracks tracks holding at most   *)
(* maxEvents of the given messages in all.                                  *)
TracksOf(messages, maxTracks, maxEvents) ==
    \E n \in 0..maxTracks : \E lens \in [1..n -> 0..maxEvents] :
        /\ Sum(lens) <= maxEvents
        /\ \E flat \in [1..Sum(lens) -> messages] : stream = Split(flat, lens)

(* Nothing has been called on the file yet. *)
Loaded(ppbs) ==
    /\ ticks_per_beat \in ppbs
    /\ loaded = stream
    /\ before = stream
    /\ call = NoCall
    /\ outcome = "none"
    /\ shifts = <<>>
    /\ passes = 0
    /\ calls = 0

AllTypes == NoteTypes \cup OtherTypes

PowersOfTwo(maxExp) == {2 ^ k : k \in 0..maxExp}

(* Note classes by their lowest pitch, and the octaves the library covers *)
NoteNames == {0, 4, 7}
Octaves == {1, 11}

----------------------------------------------------------------------------
(* The pipeline: any calls in any order on a loaded file *)

PipelineInputs == Messages(AllTypes, {1}, {2}, {64})

Init ==
    /\ TracksOf(PipelineInputs, MaxTracks, MaxPipelineEvents)
    /\ Loaded(PowersOfTwo(MaxExp))

PipelineNormalize == \E velocity \in {100} : Normalize(velocity)

PipelineAlign == \E precision \in PowersOfTwo(MaxExp) : Align(precision)

PipelineCorrectPitch ==
    \E strategy \in Strategies : CorrectPitch(<<4>>, 11, strategy)

Next ==
    /\ calls < MaxCalls
    /\ \/ PipelineNormalize
       \/ PipelineAlign
       \/ PipelineCorrectPitch

Spec == Init /\ [][Next]_vars

----------------------------------------------------------------------------
(* align applied once to a loaded file, on grids of powers of two *)

AlignInputs ==
    Messages(NoteTypes, 0..MaxTime, {60}, {64}) \cup Messages(OtherTypes, {1}, {60}, {64})

InitAlign ==
    /\ TracksOf(AlignInputs, MaxTracks, MaxEvents)
    /\ Loaded(PowersOfTwo(MaxExp))

NextAlign == calls = 0 /\ \E precision \in PowersOfTwo(MaxExp) : Align(precision)

SpecAlign == InitAlign /\ [][NextAlign]_vars

----------------------------------------------------------------------------
(* align applied once to a loaded file, on any grid *)

GridInputs == Messages(AllTypes, {1}, {60}, {64})

InitGrid ==
    /\ TracksOf(GridInputs, MaxTracks, MaxGridEvents)
    /\ Loaded(0..MaxPPB)

NextGrid == calls = 0 /\ \E precision \in 0..MaxPrecision : Align(precision)

SpecGrid == InitGrid /\ [][NextGrid]_vars

----------------------------------------------------------------------------
(* correct_pitch applied once to a loaded file: a single note message of    *)
(* any pitch, or a few messages in several tracks                           *)

Pitches == MinNote..MaxNote

SingleNotes == {<<<<m>>>> : m \in Messages(NoteTypes, {0}, Pitches, {64})}

PitchInputs ==
    Messages({"note_on"}, {0}, {2, 126}, {64}) \cup Messages(OtherTypes, {0}, {2}, {64})

Keys == SeqsUpTo(NoteNames, MaxKeyLen)

InitPitch ==
    /\ \/ stream \in SingleNotes
       \/ TracksOf(PitchInputs, MaxTracks, MaxPitchEvents)
    /\ Loaded({1})

NextPitch ==
    /\ calls = 0
    /\ \E key \in Keys : \E octaves \in Octaves : \E strategy \in Strategies :
        CorrectPitch(key, octaves, strategy)

SpecPitch == InitPitch /\ [][NextPitch]_vars

----------------------------------------------------------------------------
(* Properties of align *)

Tick == ticks_per_beat \div call.precision

AlignCalled == call.op = "align"

(* n is 1, 2, 4, 8, ... *)
PowerOfTwo(n) == \E k \in 0..n : 2 ^ k = n

ValidGrid ==
    /\ PowerOfTwo(ticks_per_beat)
    /\ PowerOfTwo(call.precision)
    /\ call.precision <= ticks_per_beat

AlignReturned == AlignCalled /\ outcome = "returned" /\ ValidGrid

(* Sum of the delta-times of the note messages among the first k of a track *)
RECURSIVE NoteTimeSum(_, _)
NoteTimeSum(track, k) ==
    IF k = 0 THEN 0
    ELSE NoteTimeSum(track, k - 1) + (IF IsNote(track[k]) THEN track[k].time ELSE 0)

Drift(t, k) == NoteTimeSum(stream[t], k) - NoteTimeSum(before[t], k)

(* The shift the loop held when it reached message i of track t *)
ShiftBefore(t, i) == IF i = 1 THEN 0 ELSE shifts[t][i - 1]

(* C1: after align on a valid grid, in every track and for every prefix of  *)
(* it, the sum of the note messages' delta-times differs from the sum       *)
(* before the call by at most tick/2.                                       *)
C1_DriftBounded ==
    AlignReturned =>
        \A t \in DOMAIN stream : \A k \in 0..Len(stream[t]) :
            2 * Abs(Drift(t, k)) <= Tick

(* Two tracks: the first ends with a carry, the second drifts as well. *)
C1_Witness ==
    /\ AlignReturned
    /\ Len(stream) = 2
    /\ Len(shifts[1]) > 0 /\ shifts[1][Len(shifts[1])] # 0
    /\ \E k \in 1..Len(stream[2]) : Drift(2, k) # 0

(* C2: after align returns on a valid grid, every note message's delta-time *)
(* is a non-negative multiple of tick.                                      *)
C2_OnGridNonNegative ==
    AlignReturned =>
        \A t \in DOMAIN stream : \A i \in DOMAIN stream[t] :
            IsNote(stream[t][i]) =>
                /\ stream[t][i].time >= 0
                /\ stream[t][i].time % Tick = 0

(* A note message reached with a negative carry larger than its delta-time. *)
C2_Witness ==
    /\ AlignReturned
    /\ \E t \in DOMAIN stream : \E i \in DOMAIN stream[t] :
        /\ IsNote(before[t][i])
        /\ before[t][i].time + ShiftBefore(t, i) < 0
        /\ stream[t][i].time = 0

(* The reference algorithm: the formula applied to every note message. *)
RefMessage(message, shift, tick) ==
    IF ~IsNote(message)
    THEN [message |-> message, shift |-> shift]
    ELSE LET original == message.time + shift
             time == tick * PyRound(original, tick)
         IN  [message |-> [message EXCEPT !.time = time], shift |-> original - time]

RECURSIVE RefMessages(_, _, _)
RefMessages(messages, shift, tick) ==
    IF messages = <<>>
    THEN [track |-> <<>>, shifts |-> <<>>]
    ELSE LET step == RefMessage(Head(messages), shift, tick)
             rest == RefMessages(Tail(messages), step.shift, tick)
         IN  [track |-> <<step.message>> \o rest.track,
              shifts |-> <<step.shift>> \o rest.shifts]

GuardSkips(t, i) ==
    /\ IsNote(before[t][i])
    /\ before[t][i].time + (ShiftBefore(t, i) % Tick) = 0

(* C10: on a valid grid align leaves every track, and the shift after every *)
(* message, as the reference algorithm does; a note message the guard skips *)
(* is one the formula leaves unchanged with carry 0; a note message with    *)
(* (delta-time + shift) % tick = 0 ends at delta-time + shift with carry 0. *)
C10_GuardEquivalent ==
    AlignReturned =>
        \A t \in DOMAIN stream :
            LET ref == RefMessages(before[t], 0, Tick)
            IN  /\ stream[t] = ref.track
                /\ shifts[t] = ref.shifts
                /\ \A i \in DOMAIN stream[t] :
                    /\ GuardSkips(t, i) =>
                        /\ RefMessage(before[t][i], ShiftBefore(t, i), Tick)
                             = [message |-> before[t][i], shift |-> 0]
                        /\ shifts[t][i] = 0
                    /\ (IsNote(before[t][i])
                        /\ (before[t][i].time + ShiftBefore(t, i)) % Tick = 0) =>
                        /\ stream[t][i].time = before[t][i].time + ShiftBefore(t, i)
                        /\ shifts[t][i] = 0

(* A track with a note message the guard skips and a note message that is   *)
(* on the grid only once the carry is added.                                *)
C10_Witness ==
    /\ AlignReturned
    /\ \E t \in DOMAIN stream :
        /\ \E i \in DOMAIN stream[t] : GuardSkips(t, i)
        /\ \E i \in DOMAIN stream[t] :
            /\ IsNote(before[t][i])
            /\ ShiftBefore(t, i) # 0
            /\ (before[t][i].time + ShiftBefore(t, i)) % Tick = 0

GridRejected ==
    AlignCalled /\ (~PowerOfTwo(ticks_per_beat) \/ ~PowerOfTwo(call.precision))

(* C6: align raises the grid-validation error (ValueError) when             *)
(* ticks_per_beat or precision is not a power of two, 0 included, and the   *)
(* stream is then as it was before the call.                                *)
C6_NonPowerOfTwoRejected ==
    GridRejected => outcome = "ValueError" /\ stream = before

(* Precision 0 on a stream with a note message off every grid. *)
C6_Witness ==
    /\ GridRejected
    /\ call.precision = 0
    /\ outcome = "ValueError"
    /\ \E t \in DOMAIN stream : \E i \in DOMAIN stream[t] :
        IsNote(stream[t][i]) /\ stream[t][i].time % 2 = 1

(* C7: with both powers of two and precision > ticks_per_beat, align raises *)
(* the grid-validation error for every stream and changes no message.       *)
C7_ZeroTickRejected ==
    (/\ AlignCalled
     /\ PowerOfTwo(ticks_per_beat)
     /\ PowerOfTwo(call.precision)
     /\ call.precision > ticks_per_beat)
        => outcome = "ValueError" /\ stream = before

----------------------------------------------------------------------------
(* Properties of correct_pitch *)

PitchCalled == call.op = "correct_pitch"

Allowed == Elems(call.notes)

Distance(x, p) == Abs(x - p)

(* C3: with a non-empty allowed collection, after correct_pitch returns the *)
(* pitch of every note message of every track is in the collection, for     *)
(* each strategy.                                                           *)
C3_PitchInAllowed ==
    (PitchCalled /\ call.notes # <<>> /\ Allowed \subseteq Pitches) =>
        /\ outcome = "returned"
        /\ \A t \in DOMAIN stream : \A i \in DOMAIN stream[t] :
            IsNote(stream[t][i]) => stream[t][i].note \in Allowed

(* Two tracks, shift_up: a note raised in one, a note above every allowed   *)
(* pitch brought down in the other.                                         *)
C3_Witness ==
    /\ PitchCalled /\ outcome = "returned" /\ call.strategy = "shift_up"
    /\ Len(stream) = 2
    /\ \E i \in DOMAIN stream[1] :
        IsNote(stream[1][i]) /\ stream[1][i].note > before[1][i].note
    /\ \E i \in DOMAIN stream[2] :
        /\ IsNote(stream[2][i])
        /\ \A x \in Allowed : x < before[2][i].note
        /\ stream[2][i].note \in Allowed

AtOrAbove(p) == {x \in Allowed : x >= p}
AtOrBelow(p) == {x \in Allowed : x <= p}
Least(S) == CHOOSE x \in S : \A y \in S : x <= y
Greatest(S) == CHOOSE x \in S : \A y \in S : x >= y

(* C4: with a non-empty allowed collection shift_up ends, leaving a note at *)
(* the smallest allowed pitch at or above it, or at the largest allowed     *)
(* pitch when there is none; shift_down ends, leaving it at the largest     *)
(* allowed pitch at or below it, or at the smallest allowed pitch when      *)
(* there is none; no loop makes more than 127 passes.                       *)
C4_UpDownResult ==
    (PitchCalled /\ call.notes # <<>> /\ call.strategy \in {"shift_up", "shift_down"}) =>
        /\ outcome = "returned"
        /\ passes <= 127
        /\ \A t \in DOMAIN stream : \A i \in DOMAIN stream[t] :
            IsNote(before[t][i]) =>
                LET p == before[t][i].note
                    up == IF AtOrAbove(p) # {} THEN Least(AtOrAbove(p))
                          ELSE Greatest(Allowed)
                    down == IF AtOrBelow(p) # {} THEN Greatest(AtOrBelow(p))
                            ELSE Least(Allowed)
                IN  stream[t][i].note = IF call.strategy = "shift_up" THEN up ELSE down

(* shift_up of 126 with only 0 allowed: up to 127, then 127 passes down. *)
C4_Witness ==
    /\ PitchCalled /\ call.strategy = "shift_up" /\ Allowed = {0}
    /\ passes = 127
    /\ \E t \in DOMAIN stream : \E i \in DOMAIN stream[t] :
        IsNote(before[t][i]) /\ before[t][i].note = 126 /\ stream[t][i].note = 0

NearestCalled == PitchCalled /\ call.strategy = "shift_nearest" /\ call.notes # <<>>

(* C5 as stated: shift_nearest leaves a note at an allowed pitch at the     *)
(* least distance from it, the lower one of two equally distant, whatever   *)
(* the order of the collection.                                             *)
C5_LowerOnTies ==
    NearestCalled =>
        \A t \in DOMAIN stream : \A i \in DOMAIN stream[t] :
            IsNote(before[t][i]) =>
                LET p == before[t][i].note
                    a == stream[t][i].note
                IN  /\ a \in Allowed
                    /\ \A x \in Allowed :
                        /\ Distance(x, p) >= Distance(a, p)
                        /\ Distance(x, p) = Distance(a, p) => a <= x

(* C5 amended: shift_nearest leaves a note at an allowed pitch at the least *)
(* distance from it, the one that comes first in the collection's order of  *)
(* two equally distant.                                                     *)
C5_FirstOnTies ==
    NearestCalled =>
        /\ outcome = "returned"
        /\ \A t \in DOMAIN stream : \A i \in DOMAIN stream[t] :
            IsNote(before[t][i]) =>
                LET p == before[t][i].note
                    a == stream[t][i].note
                IN  /\ \A x \in Allowed : Distance(x, p) >= Distance(a, p)
                    /\ \E k \in DOMAIN call.notes :
                        /\ call.notes[k] = a
                        /\ \A j \in 1..(k - 1) :
                            Distance(call.notes[j], p) > Distance(a, p)

(* 2 between 4 and 0, 4 first in the collection: 4 is chosen. *)
C5_Witness ==
    /\ NearestCalled
    /\ \E t \in DOMAIN stream : \E i \in DOMAIN stream[t] :
        /\ IsNote(before[t][i])
        /\ before[t][i].note = 2 /\ stream[t][i].note = 4
        /\ 0 \in Allowed

(* C8: with an empty allowed collection correct_pitch raises for each       *)
(* strategy and every stream, and no pitch has been changed.                *)
C8_EmptyKeyRejected ==
    (PitchCalled /\ call.notes = <<>>) =>
        outcome # "returned" /\ stream = before

----------------------------------------------------------------------------
(* Properties of the pipeline *)

SameShape(s, r) ==
    /\ Len(s) = Len(r)
    /\ \A t \in DOMAIN s :
        /\ Len(s[t]) = Len(r[t])
        /\ \A i \in DOMAIN s[t] : s[t][i].type = r[t][i].type

(* C9: while every call has returned, the stream has the tracks, messages   *)
(* and message types it was loaded with, in their order, and every message  *)
(* that is not a note is as it was loaded; of a note message normalize      *)
(* changes only the velocity, to the one given, align only the delta-time   *)
(* and correct_pitch only the pitch.                                        *)
C9_Frame ==
    Running =>
        /\ SameShape(stream, loaded)
        /\ SameShape(stream, before)
        /\ \A t \in DOMAIN stream : \A i \in DOMAIN stream[t] :
            LET new == stream[t][i]
                old == before[t][i]
            IN  /\ ~IsNote(new) => new = loaded[t][i]
                /\ call.op = "normalize" => (IsNote(new) => new = [old EXCEPT !.velocity = call.velocity])
                /\ call.op = "align" => new = [old EXCEPT !.time = new.time]
                /\ call.op = "correct_pitch" => new = [old EXCEPT !.note = new.note]

(* Three calls have returned; a track holds a message that is not a note    *)
(* and a note whose delta-time, pitch and velocity have all been changed.   *)
C9_Witness ==
    /\ calls = 3 /\ outcome = "returned"
    /\ \E t \in DOMAIN stream : \E i, j \in DOMAIN stream[t] :
        /\ ~IsNote(stream[t][i])
        /\ IsNote(stream[t][j])
        /\ stream[t][j].time # loaded[t][j].time
        /\ stream[t][j].note # loaded[t][j].note
        /\ stream[t][j].velocity # loaded[t][j].velocity

====
